---------------------------- MODULE Spec2Model ----------------------------
(***************************************************************************)
(* State-machine model of backend/server.py: the product catalog, the cart *)
(* and the chat history kept in the document store, and the request        *)
(* handlers that read and write them.                                      *)
(*                                                                         *)
(* Strings are TLA+ strings; Len, Head, Tail, SubSeq and \o act on them as *)
(* on sequences of characters, so split/strip/lower/join and the regex     *)
(* search are computed character by character.                             *)
(*                                                                         *)
(* A request that carries no value for an optional string (category,       *)
(* search) is modelled by "": the handlers only test the truthiness of     *)
(* these parameters, and None and "" are both falsy.                       *)
(*                                                                         *)
(* Fields no handler ever reads (image_url, created_at, added_at,          *)
(* timestamp, ChatMessage.id) are left out of the stored documents.        *)
(***************************************************************************)
EXTENDS Integers, Sequences, FiniteSets, TLC

VARIABLES
    products,       \* db.products, in insertion order
    cart,           \* db.cart, in insertion order
    chat_history,   \* db.chat_history, in insertion order
    cart_uuids,     \* number of CartItem ids generated and stored so far
    task,           \* add_to_cart requests in flight (interleaved execution)
    ledger,         \* history: per (user, product), the acknowledged adds
    last            \* history: the request handled last and its response

vars == <<products, cart, chat_history, cart_uuids, task, ledger, last>>

-----------------------------------------------------------------------------
(* Bounds of the model and the inputs the environment draws from.          *)

MaxCartItems == 2       \* CartItem documents ever inserted
MaxQuantity == 3        \* largest |quantity| a pair may accumulate
MaxChat == 1            \* chat records ever inserted

Users == {"u1", "u2"}
Quantities == {0, 1, 2}
\* The add_to_cart requests that may be in flight at once.
Tasks == {1, 2}


-----------------------------------------------------------------------------
(* Python string methods, as the handlers use them.                        *)

UpperChars == "ABCDEFGHIJKLMNOPQRSTUVWXYZ"
LowerChars == "abcdefghijklmnopqrstuvwxyz"
Whitespace == {" "}

Min(a, b) == IF a < b THEN a ELSE b
Abs(n) == IF n < 0 THEN -n ELSE n

CharAt(s, i) == SubSeq(s, i, i)

\* Each upper-case letter's lower-case letter.
LowerOf ==
    [c \in {CharAt(UpperChars, i) : i \in 1..Len(UpperChars)} |->
        CharAt(LowerChars, CHOOSE i \in 1..Len(UpperChars) : CharAt(UpperChars, i) = c)]

LowerChar(c) == IF c \in DOMAIN LowerOf THEN LowerOf[c] ELSE c

RECURSIVE lower(_)
lower(s) == IF Len(s) = 0 THEN "" ELSE LowerChar(CharAt(s, 1)) \o lower(Tail(s))

RECURSIVE lstrip(_)
lstrip(s) ==
    IF Len(s) > 0 /\ CharAt(s, 1) \in Whitespace THEN lstrip(Tail(s)) ELSE s

RECURSIVE rstrip(_)
rstrip(s) ==
    IF Len(s) > 0 /\ CharAt(s, Len(s)) \in Whitespace
    THEN rstrip(SubSeq(s, 1, Len(s) - 1))
    ELSE s

strip(s) == rstrip(lstrip(s))

\* The position of the first sep in s from position i on; 0 when there is none.
RECURSIVE IndexFrom(_, _, _)
IndexFrom(s, sep, i) ==
    IF i > Len(s) THEN 0
    ELSE IF CharAt(s, i) = sep THEN i
    ELSE IndexFrom(s, sep, i + 1)

\* str.split(sep) for a one-character sep: "".split(",") is [""].
RECURSIVE split(_, _)
split(s, sep) ==
    LET i == IndexFrom(s, sep, 1)
    IN IF i = 0 THEN <<s>>
       ELSE <<SubSeq(s, 1, i - 1)>> \o split(SubSeq(s, i + 1, Len(s)), sep)

\* sep.join(parts)
RECURSIVE join(_, _)
join(parts, sep) ==
    IF Len(parts) = 0 THEN ""
    ELSE IF Len(parts) = 1 THEN parts[1]
    ELSE parts[1] \o sep \o join(Tail(parts), sep)

-----------------------------------------------------------------------------
(* The AI provider: chat.send_message either raises or returns a text.     *)

AIReply(text) == [ok |-> TRUE, text |-> text]
AIFailure == [ok |-> FALSE, text |-> "AI provider error"]

\* The text generate_product_description gets back.
AIDescription == "Great product for every home"

-----------------------------------------------------------------------------
(* Sample data (prices in cents).                                          *)

SAMPLE_PRODUCTS == <<
    [name |-> "Wireless Noise-Cancelling Headphones", price |-> 29999,
     category |-> "electronics",
     tags |-> <<"wireless", "noise-cancelling", "audio", "premium">>],
    [name |-> "Smart Laptop Pro", price |-> 129999,
     category |-> "electronics",
     tags |-> <<"laptop", "professional", "high-performance", "portable">>],
    [name |-> "Premium Fashion Tracksuit", price |-> 14999,
     category |-> "fashion",
     tags |-> <<"tracksuit", "comfortable", "stylish", "casual">>],
    [name |-> "Designer Shopping Bag Set", price |-> 8999,
     category |-> "fashion",
     tags |-> <<"bags", "designer", "shopping", "accessories">>],
    [name |-> "Modern Home Shelf System", price |-> 19999,
     category |-> "home",
     tags |-> <<"shelving", "modern", "storage", "minimalist">>],
    [name |-> "Ceramic Home Decor Set", price |-> 7999,
     category |-> "home",
     tags |-> <<"ceramic", "decor", "minimalist", "artistic">>],
    [name |-> "Smart Watch Pro", price |-> 39999,
     category |-> "electronics",
     tags |-> <<"smartwatch", "fitness", "technology", "premium">>],
    [name |-> "Contemporary Furniture Piece", price |-> 59999,
     category |-> "home",
     tags |-> <<"furniture", "contemporary", "design", "quality">>]
>>

\* Product(**product_data, description=description).  uuid4 is modelled as a
\* fresh value: products are never deleted, so the number of stored products
\* plus one is an id no stored product has.  An id generated for a Product
\* that is not stored is never observed.
Product(product_data, description, uuid) ==
    [id |-> uuid,
     name |-> product_data.name,
     description |-> description,
     price |-> product_data.price,
     category |-> product_data.category,
     tags |-> product_data.tags,
     in_stock |-> TRUE]

\* CartItem(**cart_item.dict()): no constraint on quantity.
CartItem(cart_item, uuid) ==
    [id |-> uuid,
     product_id |-> cart_item.product_id,
     user_id |-> cart_item.user_id,
     quantity |-> cart_item.quantity]

ChatMessage(user_id, message, response) ==
    [user_id |-> user_id, message |-> message, response |-> response]

-----------------------------------------------------------------------------
(* The document store.  A filter is a sequence of conditions that must all  *)
(* hold of a document; collections keep their documents in insertion order. *)

None == [none |-> TRUE]

\* lower(text), tabulated for the texts the catalog can hold.
CatalogTexts ==
    {SAMPLE_PRODUCTS[i].name : i \in 1..Len(SAMPLE_PRODUCTS)}
    \cup {SAMPLE_PRODUCTS[i].category : i \in 1..Len(SAMPLE_PRODUCTS)}
    \cup {AIDescription}
LowerTable == [text \in CatalogTexts |-> lower(text)]
Lowered(text) == IF text \in CatalogTexts THEN LowerTable[text] ELSE lower(text)

\* text contains sub (as a contiguous run of characters).
Contains(text, sub) ==
    \E i \in 1..(Len(text) - Len(sub) + 1) : SubSeq(text, i, i + Len(sub) - 1) = sub

\* One alternative of a pattern: "(?i)" switches case-insensitivity on, and
\* the rest is a literal (the inputs hold no regex metacharacters).
CompileAlternative(alternative) ==
    IF Len(alternative) >= 4 /\ SubSeq(alternative, 1, 4) = "(?i)"
    THEN [ignore_case |-> TRUE,
          literal |-> lower(SubSeq(alternative, 5, Len(alternative)))]
    ELSE [ignore_case |-> FALSE, literal |-> alternative]

\* A pattern is compiled once for a query: its "|"-alternatives.
Compile(pattern) ==
    LET alternatives == split(pattern, "|")
    IN [i \in 1..Len(alternatives) |-> CompileAlternative(alternatives[i])]

\* An unanchored search of text for any alternative of the pattern.
RegexSearch(compiled, text) ==
    \E i \in 1..Len(compiled) :
        IF compiled[i].ignore_case
        THEN Contains(Lowered(text), compiled[i].literal)
        ELSE Contains(text, compiled[i].literal)

Eq(field, value) == [field |-> field, op |-> "eq", value |-> value]
Regex(field, pattern) == [field |-> field, op |-> "regex", value |-> Compile(pattern)]
In(field, values) == [field |-> field, op |-> "in", value |-> values]
Or(conditions) == [field |-> "$or", op |-> "or", value |-> conditions]

\* A condition on one field.  On an array field (tags), "in" holds when
\* some element of the array is one of the values.
HoldsSimple(doc, c) ==
    CASE c.op = "eq" -> doc[c.field] = c.value
      [] c.op = "regex" -> RegexSearch(c.value, doc[c.field])
      [] c.op = "in" ->
            \E i \in 1..Len(doc[c.field]) : \E j \in 1..Len(c.value) :
                doc[c.field][i] = c.value[j]

Holds(doc, c) ==
    IF c.op = "or"
    THEN \E i \in 1..Len(c.value) : HoldsSimple(doc, c.value[i])
    ELSE HoldsSimple(doc, c)

Matches(doc, filter) == \A i \in 1..Len(filter) : Holds(doc, filter[i])

\* collection.find(filter).limit(n).to_list(n), for n > 0.
RECURSIVE find(_, _, _)
find(coll, filter, n) ==
    IF Len(coll) = 0 \/ n = 0 THEN <<>>
    ELSE IF Matches(coll[1], filter)
         THEN <<coll[1]>> \o find(Tail(coll), filter, n - 1)
         ELSE find(Tail(coll), filter, n)

\* collection.find_one(filter): the first matching document, or None.
find_one(coll, filter) ==
    LET found == find(coll, filter, 1)
    IN IF Len(found) = 0 THEN None ELSE found[1]

insert_one(coll, doc) == Append(coll, doc)

FirstMatch(coll, filter) ==
    CHOOSE i \in 1..Len(coll) :
        /\ Matches(coll[i], filter)
        /\ \A j \in 1..(i - 1) : ~Matches(coll[j], filter)

\* collection.update_one(filter, {"$set": {"quantity": q}}): the first
\* matching document is changed; nothing happens when none matches.
update_one(coll, filter, quantity) ==
    IF find_one(coll, filter) = None THEN coll
    ELSE [coll EXCEPT ![FirstMatch(coll, filter)].quantity = quantity]

\* A faulty delete_one: the first document is removed, whatever the filter.
delete_one_first(coll, filter) ==
    IF Len(coll) = 0
    THEN [coll |-> coll, deleted_count |-> 0]
    ELSE [coll |-> Tail(coll), deleted_count |-> 1]

\* collection.delete_one(filter): the first matching document is removed.
delete_one(coll, filter) ==
    IF find_one(coll, filter) = None
    THEN [coll |-> coll, deleted_count |-> 0]
    ELSE LET i == FirstMatch(coll, filter)
         IN [coll |-> SubSeq(coll, 1, i - 1) \o SubSeq(coll, i + 1, Len(coll)),
             deleted_count |-> 1]

-----------------------------------------------------------------------------
(* Responses and exceptions.                                               *)

HTTPException(status_code, detail) == [status_code |-> status_code, detail |-> detail]

\* str(e) of a raised HTTPException: "<status_code>: <detail>" where the
\* installed Starlette defines __str__, "" where it does not.
StrOfNotFound == {"404: Product not found", ""}

\* except Exception as e: raise HTTPException(status_code=500, detail=str(e))
InternalError(str_e) == HTTPException(500, str_e)

-----------------------------------------------------------------------------
(* Inputs of the requests.                                                 *)

\* The product ids requests name: those of the first two products stored,
\* and 0, an id no product ever gets.
TargetIds == {0, 1, 2}
ItemIds == 1..MaxCartItems
Pairs == Users \X TargetIds

CartItemCreate == [product_id : TargetIds, user_id : Users, quantity : Quantities]

\* The AI outcomes of one seed_products request: call f fails (0: none does).
SeedFailPoints == {0, 1, 4}
SeedRun(f) ==
    [i \in 1..Len(SAMPLE_PRODUCTS) |->
        IF i = f THEN AIFailure ELSE AIReply(AIDescription)]

-----------------------------------------------------------------------------
(* POST /products/seed                                                     *)

\* A faulty loop: every product is inserted, without the lookup by name.
RECURSIVE SeedLoop_unconditional(_, _, _)
SeedLoop_unconditional(prods, i, ai) ==
    IF i > Len(SAMPLE_PRODUCTS)
    THEN [products |-> prods, status |-> 200,
          detail |-> "Products seeded successfully"]
    ELSE IF ~ai[i].ok
    THEN [products |-> prods, status |-> 500, detail |-> ai[i].text]
    ELSE SeedLoop_unconditional(
             insert_one(prods, Product(SAMPLE_PRODUCTS[i], ai[i].text, Len(prods) + 1)),
             i + 1, ai)

\* The loop of seed_products from sample i on, on the catalog prods; ai[i]
\* is the outcome of the i-th generate_product_description call.
RECURSIVE SeedLoop(_, _, _)
SeedLoop(prods, i, ai) ==
    IF i > Len(SAMPLE_PRODUCTS)
    THEN [products |-> prods, status |-> 200,
          detail |-> "Products seeded successfully"]
    ELSE IF ~ai[i].ok
    THEN [products |-> prods, status |-> InternalError(ai[i].text).status_code,
          detail |-> InternalError(ai[i].text).detail]
    ELSE LET product == Product(SAMPLE_PRODUCTS[i], ai[i].text, Len(prods) + 1)
             existing == find_one(prods, <<Eq("name", product.name)>>)
         IN SeedLoop(IF existing = None THEN insert_one(prods, product) ELSE prods,
                     i + 1, ai)

seed_products(ai) ==
    LET r == SeedLoop(products, 1, ai)
    IN /\ products' = r.products
       /\ last' = [op |-> "seed_products", status |-> r.status, detail |-> r.detail]
       /\ UNCHANGED <<cart, chat_history, cart_uuids, task, ledger>>

-----------------------------------------------------------------------------
(* POST /cart                                                              *)

Idle == [pc |-> "idle"]

PairOf(item) == <<item.user_id, item.product_id>>

add_find_product(prods, cart_item) ==
    find_one(prods, <<Eq("id", cart_item.product_id)>>)

add_find_existing(crt, cart_item) ==
    find_one(crt, <<Eq("product_id", cart_item.product_id),
                    Eq("user_id", cart_item.user_id)>>)

\* A faulty write: the stored quantity is replaced by the requested one.
add_write_overwrite(crt, uuids, cart_item, existing_item) ==
    IF existing_item # None
    THEN [cart |-> update_one(crt, <<Eq("id", existing_item.id)>>, cart_item.quantity),
          cart_uuids |-> uuids,
          body |-> [existing_item EXCEPT !.quantity = cart_item.quantity]]
    ELSE [cart |-> insert_one(crt, CartItem(cart_item, uuids + 1)),
          cart_uuids |-> uuids + 1,
          body |-> CartItem(cart_item, uuids + 1)]

\* The branch on existing_item: the store after the awaited write, and the
\* CartItem returned.
add_write(crt, uuids, cart_item, existing_item) ==
    IF existing_item # None
    THEN LET new_quantity == existing_item.quantity + cart_item.quantity
         IN [cart |-> update_one(crt, <<Eq("id", existing_item.id)>>, new_quantity),
             cart_uuids |-> uuids,
             body |-> [existing_item EXCEPT !.quantity = new_quantity]]
    ELSE LET cart_item_obj == CartItem(cart_item, uuids + 1)
         IN [cart |-> insert_one(crt, cart_item_obj),
             cart_uuids |-> uuids + 1,
             body |-> cart_item_obj]

AddResponse(status, detail, body) ==
    [op |-> "add_to_cart", status |-> status, detail |-> detail, body |-> body]

\* The 404 raised inside the try block is caught by "except Exception".
AddProductMissing(str_e) ==
    AddResponse(InternalError(str_e).status_code, InternalError(str_e).detail, None)

Acknowledge(cart_item) ==
    [ledger EXCEPT ![PairOf(cart_item)] =
        [acked |-> TRUE, total |-> @.total + cart_item.quantity]]

MaxOf(S) == IF S = {} THEN 0 ELSE CHOOSE x \in S : \A y \in S : y <= x

RECURSIVE SumOver(_, _)
SumOver(T, pair) ==
    IF T = {} THEN 0
    ELSE LET t == CHOOSE x \in T : TRUE
         IN (IF task[t].pc # "idle" /\ PairOf(task[t].cart_item) = pair
             THEN Abs(task[t].cart_item.quantity) ELSE 0)
            + SumOver(T \ {t}, pair)

\* What the quantities of a pair may still grow to: the largest quantity
\* stored, acknowledged or read for it, plus those of the requests in flight.
Reserved(pair) ==
    MaxOf({Abs(cart[i].quantity) : i \in {j \in 1..Len(cart) : PairOf(cart[j]) = pair}}
          \cup {Abs(ledger[pair].total)}
          \cup {Abs(task[t].existing_item.quantity) :
                   t \in {u \in Tasks : /\ task[u].pc = "write"
                                        /\ task[u].existing_item # None
                                        /\ PairOf(task[u].cart_item) = pair}})
    + SumOver(Tasks, pair)

WithinBounds(cart_item) ==
    Reserved(PairOf(cart_item)) + Abs(cart_item.quantity) <= MaxQuantity

\* The whole handler, when no other request runs between its awaits.
add_to_cart(cart_item) ==
    /\ WithinBounds(cart_item)
    /\ \A t \in Tasks : task[t] = Idle
    /\ LET product == add_find_product(products, cart_item)
           existing_item == add_find_existing(cart, cart_item)
           w == add_write(cart, cart_uuids, cart_item, existing_item)
       IN IF product = None
          THEN /\ \E str_e \in StrOfNotFound : last' = AddProductMissing(str_e)
               /\ UNCHANGED <<cart, cart_uuids, ledger>>
          ELSE /\ w.cart_uuids <= MaxCartItems
               /\ cart' = w.cart
               /\ cart_uuids' = w.cart_uuids
               /\ ledger' = Acknowledge(cart_item)
               /\ last' = AddResponse(200, "", w.body)
    /\ UNCHANGED <<products, chat_history, task>>

\* The handler up to its second await: the product lookup.
AddFindProduct(t, cart_item) ==
    /\ task[t] = Idle
    /\ WithinBounds(cart_item)
    /\ IF add_find_product(products, cart_item) = None
       THEN /\ \E str_e \in StrOfNotFound : last' = AddProductMissing(str_e)
            /\ UNCHANGED task
       ELSE /\ task' = [task EXCEPT ![t] = [pc |-> "find_existing", cart_item |-> cart_item]]
            /\ UNCHANGED last
    /\ UNCHANGED <<products, cart, chat_history, cart_uuids, ledger>>

\* The cart lookup, up to the awaited write.
AddFindExisting(t) ==
    /\ task[t].pc = "find_existing"
    /\ task' = [task EXCEPT ![t] =
                    [pc |-> "write", cart_item |-> task[t].cart_item,
                     existing_item |-> add_find_existing(cart, task[t].cart_item)]]
    /\ UNCHANGED <<products, cart, chat_history, cart_uuids, ledger, last>>

\* The write and the response.
AddWrite(t) ==
    /\ task[t].pc = "write"
    /\ LET w == add_write(cart, cart_uuids, task[t].cart_item, task[t].existing_item)
       IN /\ w.cart_uuids <= MaxCartItems
          /\ cart' = w.cart
          /\ cart_uuids' = w.cart_uuids
          /\ ledger' = Acknowledge(task[t].cart_item)
          /\ last' = AddResponse(200, "", w.body)
    /\ task' = [task EXCEPT ![t] = Idle]
    /\ UNCHANGED <<products, chat_history>>

-----------------------------------------------------------------------------
(* DELETE /cart/{item_id}                                                  *)

\* The pairs of the documents with this id (one document, ids being unique).
PairsOfId(crt, item_id) ==
    {PairOf(crt[i]) : i \in {j \in 1..Len(crt) : crt[j].id = item_id}}

remove_from_cart(item_id) ==
    LET result == delete_one(cart, <<Eq("id", item_id)>>)
    IN /\ cart' = result.coll
       /\ IF result.deleted_count = 0
          THEN /\ last' = [op |-> "remove_from_cart", status |-> 404,
                           detail |-> "Cart item not found", item_id |-> item_id]
               /\ UNCHANGED ledger
          ELSE /\ last' = [op |-> "remove_from_cart", status |-> 200,
                           detail |-> "Item removed from cart", item_id |-> item_id]
               /\ ledger' = [p \in Pairs |->
                                IF p \in PairsOfId(cart, item_id)
                                THEN [acked |-> FALSE, total |-> 0]
                                ELSE ledger[p]]
       /\ UNCHANGED <<products, chat_history, cart_uuids, task>>

-----------------------------------------------------------------------------
(* GET /products                                                           *)

Ids(docs) == [i \in 1..Len(docs) |-> docs[i].id]

\* get_smart_search_results: the comma-separated reply, each keyword stripped.
get_smart_search_results(response) ==
    LET parts == split(response, ",")
    IN [i \in 1..Len(parts) |-> strip(parts[i])]

\* search_terms = [search] + keywords
search_terms(search, keywords) == <<search>> \o keywords

\* "|".join([f"(?i){term}" for term in search_terms])
search_regex(terms) == join([i \in 1..Len(terms) |-> "(?i)" \o terms[i]], "|")

\* The query of get_products; category and search are "" when not given.
ProductsQuery(category, search, keywords) ==
    LET terms == search_terms(search, keywords)
    IN (IF category # "" THEN <<Eq("category", category)>> ELSE <<>>)
       \o (IF search # ""
           THEN <<Or(<<Regex("name", search_regex(terms)),
                       Regex("description", search_regex(terms)),
                       In("tags", [i \in 1..Len(terms) |-> lower(terms[i])])>>)>>
           ELSE <<>>)

\* The response of get_products on the catalog prods; ai is the outcome of
\* the keyword request, made only for a non-empty search.
GetProducts(prods, category, search, limit, ai) ==
    IF search # "" /\ ~ai.ok
    THEN [status |-> InternalError(ai.text).status_code,
          detail |-> InternalError(ai.text).detail,
          search_terms |-> <<>>, body |-> <<>>]
    ELSE LET keywords == IF search # "" THEN get_smart_search_results(ai.text) ELSE <<>>
         IN [status |-> 200, detail |-> "",
             search_terms |-> IF search # "" THEN search_terms(search, keywords) ELSE <<>>,
             body |-> Ids(find(prods, ProductsQuery(category, search, keywords), limit))]

get_products(category, search, limit, ai) ==
    LET r == GetProducts(products, category, search, limit, ai)
    IN /\ last' = [op |-> "get_products", status |-> r.status, detail |-> r.detail,
                   category |-> category, search |-> search, limit |-> limit,
                   ai |-> ai, search_terms |-> r.search_terms, body |-> r.body]
       /\ UNCHANGED <<products, cart, chat_history, cart_uuids, task, ledger>>

-----------------------------------------------------------------------------
(* GET /products/recommendations/{user_id}                                 *)

\* get_product_recommendations: the reply split on commas, each category
\* stripped and lower-cased.
get_product_recommendations(response) ==
    LET parts == split(response, ",")
    IN [i \in 1..Len(parts) |-> lower(strip(parts[i]))]

\* A faulty fetch: up to three products for one category entry.
ProductsOfCategory_three(prods, category) ==
    find(prods, <<Regex("category", "(?i)" \o category)>>, 3)

\* The products fetched for one category entry.
ProductsOfCategory(prods, category) ==
    find(prods, <<Regex("category", "(?i)" \o category)>>, 2)

\* The loop of get_recommendations over the categories from entry i on.
RECURSIVE RecommendLoop(_, _, _)
RecommendLoop(prods, categories, i) ==
    IF i > Len(categories) THEN <<>>
    ELSE ProductsOfCategory(prods, categories[i])
         \o RecommendLoop(prods, categories, i + 1)

GetRecommendations(prods, ai) ==
    IF ~ai.ok
    THEN [status |-> InternalError(ai.text).status_code,
          detail |-> InternalError(ai.text).detail,
          recommended_categories |-> <<>>, recommendations |-> <<>>]
    ELSE LET recommended_categories == get_product_recommendations(ai.text)
         IN [status |-> 200, detail |-> "",
             recommended_categories |-> recommended_categories,
             recommendations |-> Ids(RecommendLoop(prods, recommended_categories, 1))]

get_recommendations(user_id, ai) ==
    LET r == GetRecommendations(products, ai)
    IN /\ last' = [op |-> "get_recommendations", status |-> r.status,
                   detail |-> r.detail, user_id |-> user_id, ai |-> ai,
                   recommended_categories |-> r.recommended_categories,
                   recommendations |-> r.recommendations]
       /\ UNCHANGED <<products, cart, chat_history, cart_uuids, task, ledger>>

-----------------------------------------------------------------------------
(* POST /chat                                                              *)

\* dict.get(key, default)
Get(dict, key, default) == IF key \in DOMAIN dict THEN dict[key] ELSE default

\* The names of the products of the user's first ten cart entries, those
\* whose product is missing left out.
RECURSIVE ContextItems(_, _, _)
ContextItems(prods, user_cart, i) ==
    IF i > Len(user_cart) THEN <<>>
    ELSE LET product == find_one(prods, <<Eq("id", user_cart[i].product_id)>>)
         IN (IF product # None THEN <<product.name>> ELSE <<>>)
            \o ContextItems(prods, user_cart, i + 1)

enhanced_prompt(prods, crt, user_id, user_message) ==
    LET user_cart == find(crt, <<Eq("user_id", user_id)>>, 10)
        context_items == ContextItems(prods, user_cart, 1)
    IN "User's cart contains: "
       \o (IF Len(context_items) > 0 THEN join(context_items, ", ") ELSE "empty")
       \o ". User asks: " \o user_message

\* A faulty record: the prompt sent to the AI is stored as the message.
chat_record_of_prompt(user_id, user_message, prompt, response) ==
    ChatMessage(user_id, prompt, response)

\* The record chat_with_ai stores, from its locals.
chat_record(user_id, user_message, prompt, response) ==
    ChatMessage(user_id, user_message, response)

chat_with_ai(message, ai) ==
    LET user_message == Get(message, "message", "")
        user_id == Get(message, "user_id", "anonymous")
        prompt == enhanced_prompt(products, cart, user_id, user_message)
    IN /\ IF ai.ok
          THEN /\ Len(chat_history) < MaxChat
               /\ chat_history' =
                     insert_one(chat_history,
                                chat_record(user_id, user_message, prompt, ai.text))
               /\ last' = [op |-> "chat_with_ai", status |-> 200, detail |-> "",
                           message |-> message, ai |-> ai, prompt |-> prompt,
                           body |-> ai.text]
          ELSE /\ UNCHANGED chat_history
               /\ last' = [op |-> "chat_with_ai",
                           status |-> InternalError(ai.text).status_code,
                           detail |-> InternalError(ai.text).detail,
                           message |-> message, ai |-> ai, prompt |-> prompt,
                           body |-> ""]
       /\ UNCHANGED <<products, cart, cart_uuids, task, ledger>>

-----------------------------------------------------------------------------
(* More inputs.                                                            *)

Categories == {"", "electronics"}
Searches == {"", "Watch", "sofa"}
Limits == {1, 20}
SearchReplies ==
    {AIFailure, AIReply(""), AIReply("Laptop , DECOR"), AIReply("audio")}

RecommendationReplies ==
    {AIFailure, AIReply(""), AIReply("Home, fashion"), AIReply("home,home"),
     AIReply("elec, toys")}

\* The bodies of POST /chat: one with both keys, and the empty dict {}.
ChatRequests == {[message |-> "Any deals?", user_id |-> "u1"], <<>>}
ChatReplies == {AIFailure, AIReply("Try the Smart Watch Pro")}

\* The adds that fill the carts the chat and the recommendations read.
ContextRequests == [product_id : {1, 2}, user_id : {"u1"}, quantity : {1}]

-----------------------------------------------------------------------------

Init ==
    /\ products = <<>>
    /\ cart = <<>>
    /\ chat_history = <<>>
    /\ cart_uuids = 0
    /\ task = [t \in Tasks |-> Idle]
    /\ ledger = [p \in Pairs |-> [acked |-> FALSE, total |-> 0]]
    /\ last = [op |-> "none", status |-> 0, detail |-> ""]

(***************************************************************************)
(* Specifications.  In Spec every handler runs, the requests one after     *)
(* another.  SpecCart, SpecSearch and SpecRecommend are the program under  *)
(* the full range of cart, search and recommendation requests.  In         *)
(* SpecInterleaved the awaits of concurrent add_to_cart requests           *)
(* interleave.                                                             *)
(***************************************************************************)

\* Every handler; the searches and recommendations drawn from a few requests.
Next ==
    \/ \E f \in SeedFailPoints : seed_products(SeedRun(f))
    \/ \E cart_item \in ContextRequests : add_to_cart(cart_item)
    \/ \E item_id \in ItemIds : remove_from_cart(item_id)
    \/ \E ai \in {AIFailure, AIReply("audio")} : get_products("", "Watch", 20, ai)
    \/ \E ai \in {AIFailure, AIReply("Home, fashion")} : get_recommendations("u1", ai)
    \/ \E message \in ChatRequests, ai \in ChatReplies : chat_with_ai(message, ai)

Spec == Init /\ [][Next]_vars

NextCart ==
    \/ \E f \in SeedFailPoints : seed_products(SeedRun(f))
    \/ \E cart_item \in CartItemCreate : add_to_cart(cart_item)
    \/ \E item_id \in ItemIds : remove_from_cart(item_id)

SpecCart == Init /\ [][NextCart]_vars

\* The requests whose awaits interleave: adds of one user for one product.
InterleavedRequests == [product_id : {1}, user_id : {"u1"}, quantity : {1, 2}]

NextInterleaved ==
    \/ \E f \in SeedFailPoints : seed_products(SeedRun(f))
    \/ \E t \in Tasks : \E cart_item \in InterleavedRequests : AddFindProduct(t, cart_item)
    \/ \E t \in Tasks : AddFindExisting(t)
    \/ \E t \in Tasks : AddWrite(t)
    \/ \E item_id \in ItemIds : remove_from_cart(item_id)

SpecInterleaved == Init /\ [][NextInterleaved]_vars

NextSearch ==
    \/ \E f \in SeedFailPoints : seed_products(SeedRun(f))
    \/ \E category \in Categories, search \in Searches, limit \in Limits,
          ai \in SearchReplies : get_products(category, search, limit, ai)

SpecSearch == Init /\ [][NextSearch]_vars

NextRecommend ==
    \/ \E f \in SeedFailPoints : seed_products(SeedRun(f))
    \/ \E cart_item \in ContextRequests : add_to_cart(cart_item)
    \/ \E item_id \in ItemIds : remove_from_cart(item_id)
    \/ \E user_id \in Users, ai \in RecommendationReplies :
          get_recommendations(user_id, ai)

SpecRecommend == Init /\ [][NextRecommend]_vars

-----------------------------------------------------------------------------
(* Properties.                                                             *)

EntriesOf(pair) == {i \in 1..Len(cart) : PairOf(cart[i]) = pair}

\* C1: adds for one (user, product) pair that run one after another, with no
\* deletion in between, leave exactly one entry for the pair, its quantity
\* the sum of the quantities added (ledger[pair].total); the add handled
\* last returned that entry.
C1_SequentialAddsSum ==
    /\ \A pair \in Pairs :
          ledger[pair].acked =>
              /\ Cardinality(EntriesOf(pair)) = 1
              /\ \A i \in EntriesOf(pair) : cart[i].quantity = ledger[pair].total
    /\ (last.op = "add_to_cart" /\ last.status = 200) =>
          /\ ledger[PairOf(last.body)].acked
          /\ \A i \in EntriesOf(PairOf(last.body)) : cart[i] = last.body

\* Adds of at most 2 each have summed to 3 for u1 and product 1.
C1_Witness ==
    /\ last.op = "add_to_cart" /\ last.status = 200
    /\ PairOf(last.body) = <<"u1", 1>>
    /\ last.body.quantity = 3
    /\ ledger[<<"u1", 1>>].total = 3

\* C2: the cart holds at most one entry per (user, product) pair in every
\* state, also when the awaits of add_to_cart requests interleave.
C2_AtMostOneEntryPerPair ==
    \A i, j \in 1..Len(cart) : PairOf(cart[i]) = PairOf(cart[j]) => i = j

\* C3: add_to_cart for a product id that is not in the catalog answers 404,
\* "Product not found", and leaves the cart as it was.
C3_UnknownProduct404 ==
    [][\A cart_item \in CartItemCreate :
          (/\ add_to_cart(cart_item)
           /\ \A i \in 1..Len(products) : products[i].id # cart_item.product_id)
          => (/\ last'.status = 404
              /\ last'.detail = "Product not found"
              /\ cart' = cart)]_vars

\* The products a search for the raw query must return: those whose name
\* contains it (whatever the case), within the category asked for.
C4_NameMatchesReturned ==
    \A i \in 1..Len(products) :
        (/\ Contains(lower(products[i].name), lower(last.search))
         /\ last.category \in {"", products[i].category})
        => \E k \in 1..Len(last.body) : last.body[k] = products[i].id

\* C4: whatever the AI expansion does (keywords, an empty reply, a failure),
\* the raw query is among the terms searched for, so that a search returns
\* the products whose name contains it, unless the limit cuts the result.
C4_RawTermAlways ==
    (last.op = "get_products" /\ last.search # "") =>
        (Len(last.body) < last.limit => C4_NameMatchesReturned)

ChatUser(message) ==
    IF "user_id" \in DOMAIN message THEN message.user_id ELSE "anonymous"
ChatText(message) ==
    IF "message" \in DOMAIN message THEN message.message ELSE ""

NoDuplicateNames ==
    \A i, j \in 1..Len(products) : products[i].name = products[j].name => i = j

AllSampleNamesStored ==
    \A k \in 1..Len(SAMPLE_PRODUCTS) :
        \E i \in 1..Len(products) : products[i].name = SAMPLE_PRODUCTS[k].name

\* C6: after any run of seed_products requests, aborted ones included, no two
\* products have the same name; a complete seed stores every sample product,
\* and from then on no request changes the catalog.
C6_SeedIdempotent ==
    [][/\ NoDuplicateNames'
       /\ (last'.op = "seed_products" /\ last'.status = 200) => AllSampleNamesStored'
       /\ AllSampleNamesStored => products' = products]_vars

\* A seed ran, and was aborted, on a catalog already seeded completely.
C6_Witness ==
    /\ last.op = "seed_products" /\ last.status = 500
    /\ AllSampleNamesStored
    /\ Len(products) = Len(SAMPLE_PRODUCTS)

\* C7: remove_from_cart for an id the cart does not hold answers 404 and
\* leaves cart, catalog and chat history as they were; for an id it holds,
\* it removes that entry and no other.
C7_RemoveFromCart ==
    [][last'.op = "remove_from_cart" =>
          IF \A i \in 1..Len(cart) : cart[i].id # last'.item_id
          THEN /\ last'.status = 404
               /\ cart' = cart
               /\ products' = products
               /\ chat_history' = chat_history
          ELSE /\ last'.status = 200
               /\ Len(cart') = Len(cart) - 1
               /\ cart' = SelectSeq(cart, LAMBDA d : d.id # last'.item_id)
               /\ products' = products
               /\ chat_history' = chat_history]_vars

\* The id of an entry that had been created, and deleted, was asked for again
\* while another entry was in the cart.
C7_Witness ==
    /\ last.op = "remove_from_cart" /\ last.status = 404
    /\ last.item_id <= cart_uuids
    /\ Len(cart) > 0

\* C8: every cart entry has a positive quantity.
C8_QuantitiesPositive == \A i \in 1..Len(cart) : cart[i].quantity > 0

\* C9: when no add_to_cart is in flight and nothing was ever deleted, the one
\* entry of a pair holds the sum of the quantities of all the adds that were
\* acknowledged for it.
C9_NoAddLost ==
    \A pair \in Pairs :
        (/\ \A t \in Tasks : task[t] = Idle
         /\ Len(cart) = cart_uuids
         /\ ledger[pair].acked
         /\ Cardinality(EntriesOf(pair)) = 1)
        => \A i \in EntriesOf(pair) : cart[i].quantity = ledger[pair].total

ProductOfId(id) == products[CHOOSE i \in 1..Len(products) : products[i].id = id]

\* recs splits into one run of at most 2 products per category entry from
\* entry k on, each product's category containing its entry (whatever the case).
RECURSIVE C10_Runs(_, _, _)
C10_Runs(recs, categories, k) ==
    IF k > Len(categories) THEN Len(recs) = 0
    ELSE \E n \in 0..Min(2, Len(recs)) :
            /\ \A m \in 1..n :
                  Contains(lower(ProductOfId(recs[m]).category), categories[k])
            /\ C10_Runs(SubSeq(recs, n + 1, Len(recs)), categories, k + 1)

\* C10: get_recommendations takes the categories of the AI's reply in order,
\* duplicates kept; its result is, entry by entry, at most 2 products whose
\* category matches the entry; it changes no store.  Without a reply it
\* answers 500.
C10_Recommendations ==
    [][last'.op = "get_recommendations" =>
          /\ products' = products
          /\ cart' = cart
          /\ chat_history' = chat_history
          /\ IF last'.ai.ok
             THEN LET parts == split(last'.ai.text, ",")
                      categories == last'.recommended_categories
                  IN /\ last'.status = 200
                     /\ Len(categories) = Len(parts)
                     /\ \A k \in 1..Len(parts) : categories[k] = lower(strip(parts[k]))
                     /\ Len(last'.recommendations) <= 2 * Len(categories)
                     /\ C10_Runs(last'.recommendations, categories, 1)
             ELSE /\ last'.status = 500
                  /\ last'.recommendations = <<>>]_vars

\* "home,home" was the reply: the same two products were returned twice, to
\* a user with a cart.
C10_Witness ==
    /\ last.op = "get_recommendations" /\ last.status = 200
    /\ last.ai = AIReply("home,home")
    /\ last.recommended_categories = <<"home", "home">>
    /\ Len(last.recommendations) = 4
    /\ last.recommendations[1] = last.recommendations[3]
    /\ last.recommendations[2] = last.recommendations[4]
    /\ Len(cart) > 0

=============================================================================
